---- MODULE Spec2Model ----
(***************************************************************************)
(* rffmpeg: host selection, failover and statefile coordination of         *)
(* src/rffmpeg.py.  Every invocation is one process p (its pid); the       *)
(* invocations share the state directory and nothing else.  Text is a      *)
(* sequence of one-character strings, so that formatting and parsing of    *)
(* statefile lines are computed the way the script computes them.          *)
(***************************************************************************)
EXTENDS Integers, Sequences, FiniteSets, TLC

\* ------------------------------------------------------------------ bounds
\* invocations started in one behaviour
NumProcs == 2
\* invocations alive at the same time
MaxConcurrent == 2
\* termination signals delivered in one behaviour
MaxSignals == 1
\* invocations that hold a reservation while the observed one selects
MaxOthers == 2

Procs == 1..NumProcs

\* ------------------------------------------------------------- text helpers
NL == "\n"
SP == " "
Whitespace == {SP, NL}

\* the literal "badhost" of the regular expression and of bad_host's write
badhost == <<"b", "a", "d", "h", "o", "s", "t">>

\* the fallback target name
localhost == <<"l", "o", "c", "a", "l", "h", "o", "s", "t">>

\* worker names used by the configurations below
hx == <<"x">>
hy == <<"y">>
hxy == <<"x", "y">>

Range(s) == {s[i] : i \in 1..Len(s)}

\* re.match("^badhost", line)
StartsWith(line, prefix) ==
    /\ Len(line) >= Len(prefix)
    /\ SubSeq(line, 1, Len(prefix)) = prefix

\* `sub in line` on Python strings
Contains(sub, line) ==
    \E i \in 0..(Len(line) - Len(sub)) : SubSeq(line, i + 1, i + Len(sub)) = sub

\* str.split(): the maximal runs of non-whitespace characters, in order
RECURSIVE SplitFrom(_, _, _)
SplitFrom(line, i, cur) ==
    IF i > Len(line)
    THEN IF cur = <<>> THEN <<>> ELSE <<cur>>
    ELSE IF line[i] \in Whitespace
         THEN IF cur = <<>>
              THEN SplitFrom(line, i + 1, <<>>)
              ELSE <<cur>> \o SplitFrom(line, i + 1, <<>>)
         ELSE SplitFrom(line, i + 1, Append(cur, line[i]))

Split(line) == SplitFrom(line, 1, <<>>)

\* config["state_contents"].format(host=h) with the template "{host}"
state_contents(h) == h

\* the line get_target_host appends for its target
ActiveLine(h) == state_contents(h) \o <<NL>>

\* the line bad_host appends
BadLine(h) == badhost \o <<SP>> \o state_contents(h) \o <<NL>>

\* ------------------------------------------------------------ configuration
\* one entry of config["remote_hosts"]: a plain string or a mapping without
\* weight (hasWeight = FALSE), or a mapping with name and weight
Host(n) == [name |-> n, hasWeight |-> FALSE, weight |-> 1]
WeightedHost(n, w) == [name |-> n, hasWeight |-> TRUE, weight |-> w]

\* the configurations an invocation may be started with
Configs ==
    { <<>>,
      <<Host(hx)>>,
      <<Host(hx), Host(hy)>>,
      <<Host(hx), WeightedHost(hy, 2)>>,
      <<WeightedHost(hx, 2), Host(hy)>> }

\* ---------------------------------------------------- get_target_host, pure
\* Python's None (and the empty string, equally false in `not target_host`)
None == <<>>

\* value of the local host_weight after iteration i of the configuration
\* loop; 0 stands for "not yet assigned"
RECURSIVE host_weight(_, _)
host_weight(cfg, i) ==
    IF i = 0 THEN 0
    ELSE IF ~cfg[i].hasWeight THEN 1
    ELSE host_weight(cfg, i - 1)

\* reading host_weight before any assignment raises UnboundLocalError
UnboundWeight(cfg) == \E i \in 1..Len(cfg) : host_weight(cfg, i) = 0

\* the remote_hosts list as built from the configuration
remote_hosts(cfg) ==
    [i \in 1..Len(cfg) |->
        [name |-> cfg[i].name, weight |-> host_weight(cfg, i),
         count |-> 0, weighted_count |-> 0, bad |-> FALSE]]

\* the bad-host loop reaches its assignment, remote_hosts[rhost]["bad"] = True,
\* which indexes a list with a dict and raises TypeError
BadMatch(bad, rh) ==
    \E i \in 1..Len(bad), j \in 1..Len(rh) : bad[i] = rh[j].name

\* number of entries of active_hosts equal to name
Count(name, active) == Cardinality({k \in 1..Len(active) : active[k] = name})

WithCounts(rh, active) ==
    [j \in 1..Len(rh) |-> [rh[j] EXCEPT !.count = Count(rh[j].name, active)]]

Reweight(rh) ==
    [j \in 1..Len(rh) |->
        IF rh[j].bad THEN rh[j]
        ELSE IF rh[j].weight > 1
             THEN [rh[j] EXCEPT !.weighted_count = rh[j].count \div rh[j].weight]
             ELSE [rh[j] EXCEPT !.weighted_count = rh[j].count]]

\* the comparison of the selection loop, letting an equal count win
Lower_OrEqual(wc, lowest_count) == wc <= lowest_count

\* the comparison of the selection loop
Lower(wc, lowest_count) == wc < lowest_count

InitialLowest == 999

\* the selection loop without the update of lowest_count
RECURSIVE SelectLowest_NoUpdate(_, _, _, _)
SelectLowest_NoUpdate(rh, i, lowest_count, target) ==
    IF i > Len(rh) THEN target
    ELSE IF Lower(rh[i].weighted_count, lowest_count)
         THEN SelectLowest_NoUpdate(rh, i + 1, lowest_count, rh[i].name)
         ELSE SelectLowest_NoUpdate(rh, i + 1, lowest_count, target)

RECURSIVE SelectLowest(_, _, _, _)
SelectLowest(rh, i, lowest_count, target) ==
    IF i > Len(rh) THEN target
    ELSE IF Lower(rh[i].weighted_count, lowest_count)
         THEN SelectLowest(rh, i + 1, rh[i].weighted_count, rh[i].name)
         ELSE SelectLowest(rh, i + 1, lowest_count, target)

\* remote_hosts as the selection loop sees it
Loads(cfg, active) == Reweight(WithCounts(remote_hosts(cfg), active))

\* the value get_target_host settles on when nothing raises
TargetOf(cfg, active) ==
    LET t == SelectLowest(Loads(cfg, active), 1, InitialLowest, None)
    IN  IF t = None THEN localhost ELSE t

\* ----------------------------------------------------- statefile scan, pure
IsBadLine(line) == StartsWith(line, badhost)
IsActiveLine(line) == ~IsBadLine(line)

\* line.split()[1] of a badhost line, line.split()[0] of any other line
BadToken(line) == Split(line)[2]
ActiveToken(line) == Split(line)[1]

\* the subscript is out of range: IndexError
ParseError(lines) ==
    \E i \in 1..Len(lines) :
        IF IsBadLine(lines[i]) THEN Len(Split(lines[i])) < 2
        ELSE Len(Split(lines[i])) < 1

ParseBad(lines) ==
    LET b == SelectSeq(lines, IsBadLine)
    IN  [i \in 1..Len(b) |-> BadToken(b[i])]

ParseActive(lines) ==
    LET a == SelectSeq(lines, IsActiveLine)
    IN  [i \in 1..Len(a) |-> ActiveToken(a[i])]

\* a rewrite that writes every line back
KeepLine_All(target, line) == TRUE

\* the lines bad_host writes back: those that do not contain target_host
KeepLine(target, line) == ~Contains(target, line)

RemoveHost(lines, target) ==
    LET Keep(line) == KeepLine(target, line)
    IN  SelectSeq(lines, Keep)

\* -------------------------------------------------------------------- state
VARIABLES
    config,          \* config["remote_hosts"], the same for every invocation
    tempdir,         \* TRUE iff config["state_tempdir"] exists
    files,           \* pid -> lines of that invocation's statefile, if it exists
    pc,              \* pid -> position of the invocation in main
    state_files,     \* pid -> statefiles listed by get_target_host, not yet read
    bad_hosts,       \* pid -> get_target_host's bad_hosts
    active_hosts,    \* pid -> get_target_host's active_hosts
    opened,          \* pid -> statefiles the scan has opened and read so far
    target_host,     \* pid -> main's target_host
    returncode,      \* pid -> main's returncode
    exitcode,        \* pid -> exit status of the process, -1 while it runs
    error,           \* pid -> the exception that ended the process, if any
    signals,         \* pid -> number of termination signals caught so far
    selections,      \* pid -> calls of get_target_host so far
    remote_runs,     \* pid -> completed calls of run_remote_ffmpeg
    local_runs,      \* pid -> completed calls of run_local_ffmpeg
    failures,        \* pid -> remote runs that returned 255
    marked,          \* pid -> hosts for which bad_host has completed, in order
    cleanups         \* pid -> calls of cleanup so far

vars == <<config, tempdir, files, pc, state_files, bad_hosts, active_hosts,
          opened, target_host, returncode, exitcode, error, signals, selections,
          remote_runs, local_runs, failures, marked, cleanups>>

scan == <<state_files, bad_hosts, active_hosts, opened>>
history == <<selections, remote_runs, local_runs, failures, marked>>

\* exit codes a job or the transport may return; 255 is the transport failure
TransportFailure == 255
ReturnCodes == {0, 1, TransportFailure}

Running == -1

\* positions at which the signal handlers are installed and the process lives
Live == {"exists", "makedirs", "listdir", "read", "select", "append",
         "run_remote", "run_local", "bad_rewrite", "bad_append",
         "cleanup", "exit"}
Terminated == {"done", "crashed"}

Init ==
    /\ config \in Configs
    /\ tempdir \in BOOLEAN
    /\ files = << >>
    /\ pc = [p \in Procs |-> "main"]
    /\ state_files = [p \in Procs |-> {}]
    /\ bad_hosts = [p \in Procs |-> <<>>]
    /\ active_hosts = [p \in Procs |-> <<>>]
    /\ opened = [p \in Procs |-> {}]
    /\ target_host = [p \in Procs |-> None]
    /\ returncode = [p \in Procs |-> 1]
    /\ exitcode = [p \in Procs |-> Running]
    /\ error = [p \in Procs |-> "none"]
    /\ signals = [p \in Procs |-> 0]
    /\ selections = [p \in Procs |-> 0]
    /\ remote_runs = [p \in Procs |-> 0]
    /\ local_runs = [p \in Procs |-> 0]
    /\ failures = [p \in Procs |-> 0]
    /\ marked = [p \in Procs |-> <<>>]
    /\ cleanups = [p \in Procs |-> 0]

\* the statefile directory emptied altogether
Without_All(f) == [q \in {} |-> <<>>]

\* the statefile directory without file f
Without(f) == [q \in (DOMAIN files) \ {f} |-> files[q]]

\* the statefile directory with file f holding lines
With(f, lines) == [q \in (DOMAIN files) \cup {f} |-> IF q = f THEN lines ELSE files[q]]

\* an uncaught exception ends the process with a traceback and status 1;
\* nothing else is executed, cleanup() included
Raise(p, e) ==
    /\ pc' = [pc EXCEPT ![p] = "crashed"]
    /\ error' = [error EXCEPT ![p] = e]
    /\ exitcode' = [exitcode EXCEPT ![p] = 1]

Goto(p, label) ==
    /\ pc' = [pc EXCEPT ![p] = label]
    /\ UNCHANGED <<error, exitcode>>

\* --------------------------------------------------------------------- main
\* main up to the loop: handlers installed, returncode = 1
\* (pids are handed out in the order in which the invocations start)
Start(p) ==
    /\ pc[p] = "main"
    /\ \A q \in Procs : q < p => pc[q] # "main"
    /\ Cardinality({q \in Procs : pc[q] \in Live}) < MaxConcurrent
    /\ Goto(p, "exists")
    /\ returncode' = [returncode EXCEPT ![p] = 1]
    /\ UNCHANGED <<config, tempdir, files, scan, target_host, signals,
                   history, cleanups>>

\* get_target_host: os.path.exists(config["state_tempdir"])
Exists(p) ==
    /\ pc[p] = "exists"
    /\ selections' = [selections EXCEPT ![p] = @ + 1]
    /\ Goto(p, IF tempdir THEN "listdir" ELSE "makedirs")
    /\ UNCHANGED <<config, tempdir, files, scan, target_host, returncode,
                   signals, remote_runs, local_runs, failures, marked, cleanups>>

\* get_target_host: os.makedirs(config["state_tempdir"])
MakeDirs(p) ==
    /\ pc[p] = "makedirs"
    /\ IF tempdir
       THEN Raise(p, "FileExistsError") /\ UNCHANGED tempdir
       ELSE Goto(p, "listdir") /\ tempdir' = TRUE
    /\ UNCHANGED <<config, files, scan, target_host, returncode, signals,
                   history, cleanups>>

\* get_target_host: os.listdir(config["state_tempdir"])
ListDir(p) ==
    /\ pc[p] = "listdir"
    /\ state_files' = [state_files EXCEPT ![p] = DOMAIN files]
    /\ bad_hosts' = [bad_hosts EXCEPT ![p] = <<>>]
    /\ active_hosts' = [active_hosts EXCEPT ![p] = <<>>]
    /\ opened' = [opened EXCEPT ![p] = {}]
    /\ Goto(p, "read")
    /\ UNCHANGED <<config, tempdir, files, target_host, returncode, signals,
                   history, cleanups>>

\* get_target_host: one iteration of the loop over state_files (open, read
\* and parse one statefile); os.listdir returns the names in arbitrary order
Read(p) ==
    /\ pc[p] = "read"
    /\ state_files[p] # {}
    /\ \E f \in state_files[p] :
        IF f \notin DOMAIN files
        THEN /\ Raise(p, "FileNotFoundError")
             /\ UNCHANGED scan
        ELSE IF ParseError(files[f])
        THEN /\ Raise(p, "IndexError")
             /\ UNCHANGED scan
        ELSE /\ Goto(p, "read")
             /\ state_files' = [state_files EXCEPT ![p] = @ \ {f}]
             /\ bad_hosts' = [bad_hosts EXCEPT ![p] = @ \o ParseBad(files[f])]
             /\ active_hosts' = [active_hosts EXCEPT ![p] = @ \o ParseActive(files[f])]
             /\ opened' = [opened EXCEPT ![p] = @ \cup {f}]
    /\ UNCHANGED <<config, tempdir, files, target_host, returncode, signals,
                   history, cleanups>>

\* get_target_host: from the configuration loop to the fallback decision
Select(p) ==
    /\ pc[p] = "read"
    /\ state_files[p] = {}
    /\ IF UnboundWeight(config)
       THEN Raise(p, "UnboundLocalError") /\ UNCHANGED target_host
       ELSE IF BadMatch(bad_hosts[p], remote_hosts(config))
       THEN Raise(p, "TypeError") /\ UNCHANGED target_host
       ELSE /\ Goto(p, "append")
            /\ target_host' = [target_host EXCEPT ![p] = TargetOf(config, active_hosts[p])]
    /\ UNCHANGED <<config, tempdir, files, scan, returncode, signals,
                   history, cleanups>>

\* get_target_host: append the target's line to the own statefile and return
\* (the locals of the scan end with the call)
AppendTarget(p) ==
    /\ pc[p] = "append"
    /\ state_files' = [state_files EXCEPT ![p] = {}]
    /\ bad_hosts' = [bad_hosts EXCEPT ![p] = <<>>]
    /\ active_hosts' = [active_hosts EXCEPT ![p] = <<>>]
    /\ opened' = [opened EXCEPT ![p] = {}]
    /\ files' = With(p, (IF p \in DOMAIN files THEN files[p] ELSE <<>>)
                        \o <<ActiveLine(target_host[p])>>)
    /\ Goto(p, IF target_host[p] = localhost THEN "run_local" ELSE "run_remote")
    /\ UNCHANGED <<config, tempdir, target_host, returncode, signals,
                   history, cleanups>>

\* main: returncode = run_local_ffmpeg(); break
RunLocal(p) ==
    /\ pc[p] = "run_local"
    /\ \E rc \in ReturnCodes : returncode' = [returncode EXCEPT ![p] = rc]
    /\ local_runs' = [local_runs EXCEPT ![p] = @ + 1]
    /\ Goto(p, "cleanup")
    /\ UNCHANGED <<config, tempdir, files, scan, target_host, signals,
                   selections, remote_runs, failures, marked, cleanups>>

\* main: returncode = run_remote_ffmpeg(target_host) and the test for 255
RunRemote(p) ==
    /\ pc[p] = "run_remote"
    /\ \E rc \in ReturnCodes :
        /\ returncode' = [returncode EXCEPT ![p] = rc]
        /\ failures' = [failures EXCEPT ![p] = IF rc = TransportFailure THEN @ + 1 ELSE @]
        /\ Goto(p, IF rc = TransportFailure THEN "bad_rewrite" ELSE "cleanup")
    /\ remote_runs' = [remote_runs EXCEPT ![p] = @ + 1]
    /\ UNCHANGED <<config, tempdir, files, scan, target_host, signals,
                   selections, local_runs, marked, cleanups>>

\* main looping after a 255 without calling bad_host
BadRewrite_Skip(p) ==
    /\ pc[p] = "bad_rewrite"
    /\ Goto(p, "exists")
    /\ UNCHANGED <<config, tempdir, files, scan, target_host, returncode,
                   signals, history, cleanups>>

\* bad_host: rewrite the own statefile without the lines containing target_host
BadRewrite(p) ==
    /\ pc[p] = "bad_rewrite"
    /\ IF p \notin DOMAIN files
       THEN Raise(p, "FileNotFoundError") /\ UNCHANGED files
       ELSE Goto(p, "bad_append") /\ files' = With(p, RemoveHost(files[p], target_host[p]))
    /\ UNCHANGED <<config, tempdir, scan, target_host, returncode, signals,
                   history, cleanups>>

\* bad_host: append the badhost line; main then loops
BadAppend(p) ==
    /\ pc[p] = "bad_append"
    /\ files' = With(p, (IF p \in DOMAIN files THEN files[p] ELSE <<>>)
                        \o <<BadLine(target_host[p])>>)
    /\ marked' = [marked EXCEPT ![p] = Append(@, target_host[p])]
    /\ Goto(p, "exists")
    /\ UNCHANGED <<config, tempdir, scan, target_host, returncode, signals,
                   selections, remote_runs, local_runs, failures, cleanups>>

\* main without the removal of the statefile after the loop
Cleanup_NoRemove(p) ==
    /\ pc[p] = "cleanup"
    /\ cleanups' = [cleanups EXCEPT ![p] = @ + 1]
    /\ Goto(p, "exit")
    /\ UNCHANGED <<config, tempdir, files, scan, target_host, returncode,
                   signals, history>>

\* main: cleanup() after the loop
Cleanup(p) ==
    /\ pc[p] = "cleanup"
    /\ files' = Without(p)
    /\ cleanups' = [cleanups EXCEPT ![p] = @ + 1]
    /\ Goto(p, "exit")
    /\ UNCHANGED <<config, tempdir, scan, target_host, returncode, signals,
                   history>>

\* main: exit(returncode)
Exit(p) ==
    /\ pc[p] = "exit"
    /\ pc' = [pc EXCEPT ![p] = "done"]
    /\ exitcode' = [exitcode EXCEPT ![p] = returncode[p]]
    /\ UNCHANGED <<config, tempdir, files, scan, target_host, returncode,
                   error, signals, history, cleanups>>

\* signals delivered so far, to all invocations together
RECURSIVE Sum(_, _)
Sum(f, S) ==
    IF S = {} THEN 0
    ELSE LET q == CHOOSE r \in S : TRUE IN f[q] + Sum(f, S \ {q})

Delivered == Sum(signals, Procs)

\* SIGTERM, SIGINT, SIGQUIT or SIGHUP is delivered: the handler cleanup runs
\* and returns, and the interrupted code goes on where it was
Signal(p) ==
    /\ pc[p] \in Live
    /\ Delivered < MaxSignals
    /\ signals' = [signals EXCEPT ![p] = @ + 1]
    /\ files' = Without(p)
    /\ cleanups' = [cleanups EXCEPT ![p] = @ + 1]
    /\ UNCHANGED <<config, tempdir, pc, scan, target_host, returncode,
                   exitcode, error, history>>

Next ==
    \E p \in Procs :
        \/ Start(p)
        \/ Exists(p)
        \/ MakeDirs(p)
        \/ ListDir(p)
        \/ Read(p)
        \/ Select(p)
        \/ AppendTarget(p)
        \/ RunLocal(p)
        \/ RunRemote(p)
        \/ BadRewrite(p)
        \/ BadAppend(p)
        \/ Cleanup(p)
        \/ Exit(p)
        \/ Signal(p)

Spec == Init /\ [][Next]_vars

\* ------------------------------------------- selection under existing load
\* pids of invocations that stay blocked in their remote run throughout
Others == (NumProcs + 1)..(NumProcs + MaxOthers)

\* the invocation that is observed while the others hold their reservations
Selector == 1

LoadConfigs ==
    { <<>>,
      <<Host(hx), Host(hy)>>,
      <<Host(hx), WeightedHost(hy, 2)>>,
      <<Host(hx), Host(hxy)>> }

\* the directories the selector may find: each other invocation, blocked in
\* its remote run, holds the one line its selection appended; a file under the
\* selector's own name is what a killed invocation of the same pid left behind
\* (the script never truncates its statefile when it starts)
LoadDirs(cfg) ==
    UNION {[S -> {<<ActiveLine(cfg[i].name)>> : i \in 1..Len(cfg)}] :
              S \in SUBSET (Others \cup {Selector})}

LoadInit ==
    /\ config \in LoadConfigs
    /\ tempdir \in BOOLEAN
    /\ files \in (IF tempdir THEN LoadDirs(config) ELSE {<< >>})
    /\ pc = [p \in Procs |-> "main"]
    /\ state_files = [p \in Procs |-> {}]
    /\ bad_hosts = [p \in Procs |-> <<>>]
    /\ active_hosts = [p \in Procs |-> <<>>]
    /\ opened = [p \in Procs |-> {}]
    /\ target_host = [p \in Procs |-> None]
    /\ returncode = [p \in Procs |-> 1]
    /\ exitcode = [p \in Procs |-> Running]
    /\ error = [p \in Procs |-> "none"]
    /\ signals = [p \in Procs |-> 0]
    /\ selections = [p \in Procs |-> 0]
    /\ remote_runs = [p \in Procs |-> 0]
    /\ local_runs = [p \in Procs |-> 0]
    /\ failures = [p \in Procs |-> 0]
    /\ marked = [p \in Procs |-> <<>>]
    /\ cleanups = [p \in Procs |-> 0]

LoadNext ==
    \E p \in {Selector} :
        \/ Start(p)
        \/ Exists(p)
        \/ MakeDirs(p)
        \/ ListDir(p)
        \/ Read(p)
        \/ Select(p)
        \/ AppendTarget(p)
        \/ RunLocal(p)
        \/ RunRemote(p)
        \/ BadRewrite(p)
        \/ BadAppend(p)
        \/ Cleanup(p)
        \/ Exit(p)
        \/ Signal(p)

LoadSpec == LoadInit /\ [][LoadNext]_vars

TypeOK ==
    /\ config \in Configs \cup LoadConfigs
    /\ tempdir \in BOOLEAN
    /\ DOMAIN files \subseteq Procs \cup Others
    /\ \A p \in Procs : pc[p] \in {"main"} \cup Live \cup Terminated

\* ------------------------------------------------------- derived predicates
\* names of the configured workers
Names == {config[i].name : i \in 1..Len(config)}

\* get_target_host has returned a target to main, which has not yet used it
Selected(p) == pc[p] = "append"

\* get_target_host raised between the scan and the choice of the target
SelectFailed(p) ==
    pc[p] = "crashed" /\ error[p] \in {"TypeError", "UnboundLocalError"}

\* the configured workers named in a badhost line seen by p's scan
BadConfigured(p) == Range(bad_hosts[p]) \cap Names

\* p's own statefile exists and holds a badhost line for host n
OwnBadMark(p, n) ==
    /\ p \in DOMAIN files
    /\ n \in Range(ParseBad(files[p]))

\* -------------------------------------------------------------------- claims
\* C1: a selection whose scan found a badhost line naming a configured worker
\* completes normally and does not return such a worker.
C1_BadWorkerNeverSelected ==
    \A p \in Procs :
        (Selected(p) \/ SelectFailed(p)) /\ BadConfigured(p) # {}
            => Selected(p) /\ target_host[p] \notin BadConfigured(p)

\* C2: when every configured worker carries a badhost line in the invocation's
\* own statefile (or no worker is configured), the selection returns the local
\* target and main goes on to the local run; it neither fails nor runs remotely.
C2_AllBadFallsBackLocal ==
    \A p \in Procs :
        (\A n \in Names : OwnBadMark(p, n))
            => /\ ~SelectFailed(p)
               /\ Selected(p) => target_host[p] = localhost
               /\ pc[p] # "run_remote"

\* C3: a host for which the invocation has completed bad_host is never again
\* the target of one of its selections or remote runs.
C3_MarkedHostNeverRetried ==
    \A p \in Procs :
        pc[p] \in {"append", "run_remote"} => target_host[p] \notin Range(marked[p])

\* C4: outside bad_host, the completed markBads are exactly the remote runs that
\* returned 255, the last of them for the host just tried, each followed by one
\* new selection; a remote run with another result is the last run, unmarked.
C4_OneMarkPerTransportFailure ==
    \A p \in Procs :
        /\ pc[p] \notin {"bad_rewrite", "bad_append"}
              => Len(marked[p]) = failures[p]
        /\ pc[p] \in {"makedirs", "listdir", "read", "append", "run_remote", "run_local"}
              => selections[p] = failures[p] + 1
        /\ pc[p] = "exists" /\ failures[p] > 0
              => marked[p][Len(marked[p])] = target_host[p]
        /\ pc[p] \in {"cleanup", "exit", "done"} /\ local_runs[p] = 0
              => remote_runs[p] = failures[p] + 1 /\ returncode[p] # TransportFailure

\* C5: an invocation that has run something exits with the code of its last
\* run, which is the local run or a remote run that did not return 255
\* (stated for the invocations that caught no signal).
C5_ExitCodeIsLastRun ==
    \A p \in Procs :
        pc[p] \in Terminated /\ remote_runs[p] + local_runs[p] > 0 /\ signals[p] = 0
            => /\ exitcode[p] = returncode[p]
               /\ local_runs[p] = 0 => returncode[p] # TransportFailure

\* C6: an invocation that has left main through exit has called cleanup exactly
\* once, whether or not a signal was caught on the way.
C6_CleanupExactlyOnce ==
    \A p \in Procs : pc[p] = "done" => cleanups[p] = 1

\* C7: the statefile of a terminated invocation does not exist.
C7_NoStatefileAfterTermination ==
    \A p \in Procs : pc[p] \in Terminated => p \notin DOMAIN files

\* C8: once an invocation has caught a signal, its only further step is its
\* exit: no selection, run, markBad or statefile write follows.
C8_NoWorkAfterSignal ==
    [][\A p \in Procs :
          signals[p] > 0 /\ pc'[p] # pc[p] => pc'[p] = "done"]_vars

\* C9: an invocation makes at most one remote attempt per configured worker,
\* and one whose every remote attempt returned 255 ends in exit after exactly
\* one local run, with the local run's exit code (stated for the invocations
\* that caught no signal).
C9_ExhaustionEndsInLocalRun ==
    \A p \in Procs :
        signals[p] = 0
            => /\ remote_runs[p] <= Len(config)
               /\ pc[p] \in Terminated /\ remote_runs[p] > 0
                     /\ failures[p] = remote_runs[p]
                     => pc[p] = "done" /\ local_runs[p] = 1
                          /\ exitcode[p] = returncode[p]

\* the workers of minimal weighted count, as positions of the configuration
Minimal(rh) ==
    {i \in 1..Len(rh) : \A j \in 1..Len(rh) : rh[i].weighted_count <= rh[j].weighted_count}

\* the greatest element of a non-empty set of numbers
Last(S) == CHOOSE i \in S : \A j \in S : j <= i

\* C10: a selection that returns a worker returns the last configured one among
\* those of minimal weighted count.
C10_LastConfiguredWinsTies ==
    \A p \in Procs :
        Selected(p) /\ target_host[p] # localhost
            => LET rh == Loads(config, active_hosts[p])
               IN  target_host[p] = rh[Last(Minimal(rh))].name

\* the weighted count of worker i computed with its configured weight
ConfiguredWeighted(cfg, active, i) ==
    LET c == Count(cfg[i].name, active)
    IN  IF cfg[i].weight > 1 THEN c \div cfg[i].weight ELSE c

\* C11: a selection that returns a worker returns one whose count of active
\* lines, floor-divided by its configured weight when that is above 1, is
\* minimal among the configured workers.
C11_ConfiguredWeightDecides ==
    \A p \in Procs :
        Selected(p) /\ target_host[p] # localhost
            => \E i \in 1..Len(config) :
                  /\ config[i].name = target_host[p]
                  /\ \A j \in 1..Len(config) :
                        ConfiguredWeighted(config, active_hosts[p], i)
                            <= ConfiguredWeighted(config, active_hosts[p], j)

\* every configured worker is a plain entry, hence of weight 1
EqualWeight(cfg) == \A i \in 1..Len(cfg) : ~cfg[i].hasWeight

\* number of active lines of a scan that name host h
Reservations(h, active) == Cardinality({k \in DOMAIN active : active[k] = h})

\* the reservations of a scan differ by at most one between configured workers
EvenlySpread(cfg, active) ==
    \A i, j \in 1..Len(cfg) :
        Reservations(cfg[i].name, active) <= Reservations(cfg[j].name, active) + 1

\* C12: with workers of equal weight, a selection that returns a worker returns
\* one whose number of active reservations in the scan exceeds that of no
\* other configured worker by more than 1, however the reservations are spread.
C12_WithinOneOfMinimum ==
    \A p \in Procs :
        Selected(p) /\ target_host[p] # localhost /\ EqualWeight(config)
            => \A j \in 1..Len(config) :
                  Reservations(target_host[p], active_hosts[p])
                      <= Reservations(config[j].name, active_hosts[p]) + 1

\* a selection among at least as many evenly spread reservations as workers
C12_Witness ==
    \E p \in Procs :
        /\ Selected(p) /\ target_host[p] # localhost
        /\ EqualWeight(config) /\ Len(config) >= 2
        /\ Len(active_hosts[p]) >= Len(config)
        /\ \A i \in 1..Len(config) : Reservations(config[i].name, active_hosts[p]) >= 1
        /\ EvenlySpread(config, active_hosts[p])

\* invocation p marked h bad, has exited, and its statefile is gone
Lapsed(p, h) ==
    /\ pc[p] = "done"
    /\ p \notin DOMAIN files
    /\ h \in Range(marked[p]) \cap Names

\* no existing statefile holds a badhost line for h
Unmarked(h) == \A f \in DOMAIN files : h \notin Range(ParseBad(files[f]))

\* h comes first among the workers of minimal weighted count in q's scan
FirstMinimal(q, h) ==
    LET rh == Loads(config, active_hosts[q])
    IN  \E i \in 1..Len(rh) :
            /\ rh[i].name = h
            /\ \A j \in 1..Len(rh) : rh[i].weighted_count <= rh[j].weighted_count
            /\ \A j \in 1..(i - 1) : rh[i].weighted_count < rh[j].weighted_count

\* C13: once the invocation that marked h bad has exited, its statefile is
\* deleted, and while no existing statefile marks h, a selection of another
\* invocation treats h as any other worker: it returns h whenever h comes first
\* among the workers of minimal weighted count.
C13_MarkLapsesWithStatefile ==
    \A p \in Procs : \A h \in Range(marked[p]) \cap Names :
        pc[p] = "done"
            => /\ p \notin DOMAIN files
               /\ \A q \in Procs \ {p} :
                     Unmarked(h) /\ Selected(q) /\ FirstMinimal(q, h)
                         => target_host[q] = h

\* another invocation has selected a worker whose marking lapsed
C13_Witness ==
    \E p, q \in Procs : \E h \in Names :
        /\ p # q /\ Lapsed(p, h) /\ Unmarked(h)
        /\ Selected(q) /\ target_host[q] = h

\* C14: a step that creates, changes or deletes the statefile of invocation q
\* is a step of q itself (of its main or of its signal handler); the steps of
\* every other invocation leave q's statefile as it is.
C14_OnlyOwnStatefileWritten ==
    [][\A q \in Procs :
          \/ (q \in DOMAIN files) # (q \in DOMAIN files')
          \/ (q \in DOMAIN files /\ q \in DOMAIN files' /\ files'[q] # files[q])
          => pc'[q] # pc[q] \/ signals'[q] # signals[q]]_vars

\* one invocation has marked a host bad and another has exited, deleting its
\* statefile, while the statefile of the first is in place
C14_Witness ==
    \E p, q \in Procs :
        /\ p # q
        /\ pc[p] = "done" /\ p \notin DOMAIN files
        /\ marked[q] # <<>> /\ q \in DOMAIN files
        /\ BadLine(marked[q][1]) \in Range(files[q])

\* C15: while an invocation runs its remote job on h, its statefile exists and
\* holds the active line for h.
C15_ReservedWhileRunning ==
    \A p \in Procs :
        pc[p] = "run_remote"
            => /\ p \in DOMAIN files
               /\ ActiveLine(target_host[p]) \in Range(files[p])

\* the host a statefile line names
LineHost(line) == IF IsBadLine(line) THEN BadToken(line) ELSE ActiveToken(line)

\* the lines that name a host other than h, in their order
OtherLines(lines, h) ==
    LET Other(line) == LineHost(line) # h
    IN  SelectSeq(lines, Other)

\* C16: bad_host(h) first leaves in the own statefile exactly the lines that
\* name a host other than h, in their order, and then adds one badhost line
\* for h at the end (stated for the invocations that caught no signal).
C16_MarkBadRewritesExactly ==
    [][\A p \in Procs :
          signals[p] = 0 =>
              /\ pc[p] = "bad_rewrite" /\ pc'[p] = "bad_append"
                    => files'[p] = OtherLines(files[p], target_host[p])
              /\ pc[p] = "bad_append" /\ pc'[p] = "exists"
                    => files'[p] = Append(files[p], BadLine(target_host[p]))]_vars

\* the active lines naming h in the statefiles that exist now
CurrentReservations(h) ==
    Cardinality({fk \in UNION {{<<f, k>> : k \in 1..Len(files[f])} : f \in DOMAIN files} :
                    /\ IsActiveLine(files[fk[1]][fk[2]])
                    /\ ActiveToken(files[fk[1]][fk[2]]) = h})

\* C17: a selection follows the scan alone: it returns the first configured
\* worker of minimal weighted count among the lines the scan read, whatever
\* has been appended to the statefiles since.
C17_SelectionFollowsScan ==
    \A p \in Procs :
        Selected(p) /\ target_host[p] # localhost => FirstMinimal(p, target_host[p])

\* two invocations scanned before either appended and chose the same worker;
\* one has appended its reservation and runs, the other is about to append,
\* although another worker of equal weight now has fewer reservations
C17_Witness ==
    \E p, q \in Procs : \E h, other \in Names :
        /\ p # q /\ h # other /\ EqualWeight(config)
        /\ Selected(p) /\ target_host[p] = h /\ active_hosts[p] = <<>>
        /\ pc[q] = "run_remote" /\ target_host[q] = h
        /\ q \in DOMAIN files /\ files[q] = <<ActiveLine(h)>>
        /\ CurrentReservations(other) < CurrentReservations(h)

\* C18: a scan that listed a statefile which its owner has deleted since does
\* not fail on it (stated for the behaviours in which no signal is delivered,
\* so that the file was deleted by the cleanup of an exiting invocation).
C18_VanishedStatefileTolerated ==
    \A p \in Procs :
        ~ /\ pc[p] = "crashed"
          /\ error[p] = "FileNotFoundError"
          /\ Delivered = 0
          /\ \E f \in state_files[p] : f # p

\* C19: get_target_host does not fail on the state directory, also when
\* another invocation creates it between the existence check and makedirs.
C19_EnsureDirectoryIdempotent ==
    \A p \in Procs : ~(pc[p] = "crashed" /\ error[p] = "FileExistsError")

\* the lines of p's statefile that are not badhost lines
ActiveLines(p) == SelectSeq(files[p], IsActiveLine)

Marking(p) == pc[p] \in {"bad_rewrite", "bad_append"}

\* the step is a scan of q opening and reading the statefile of p
ScanReads(q, p) == pc[q] = "read" /\ p \notin opened[q] /\ p \in opened'[q]

\* what a scan reads from p's statefile about p's target
ReadsActive(p) == target_host[p] \in Range(ParseActive(files[p]))
ReadsBad(p) == target_host[p] \in Range(ParseBad(files[p]))

\* C21 as stated: a scan of another invocation that reads the statefile of an
\* invocation inside bad_host for h reads from it the active line for h or
\* the badhost line for h, never a file with neither.
C21_MarkBadSeenConsistently ==
    [][\A p, q \in Procs :
          p # q /\ Marking(p) /\ ScanReads(q, p)
          => ReadsActive(p) \/ ReadsBad(p)]_vars

\* C21, amended: a scan of another invocation that reads the statefile of an
\* invocation inside bad_host for h reads the active line for h and no badhost
\* line for h before the rewrite, and neither of the two between the rewrite
\* and the append; it never reads both.
C21_MarkBadSeenInTwoSteps ==
    [][\A p, q \in Procs :
          p # q /\ Marking(p) /\ ScanReads(q, p)
          => /\ pc[p] = "bad_rewrite" => ReadsActive(p) /\ ~ReadsBad(p)
             /\ pc[p] = "bad_append" => ~ReadsActive(p) /\ ~ReadsBad(p)]_vars

\* a scan of q read p's statefile between p's rewrite and p's append, found h
\* neither reserved nor bad, and selected the h that has just failed for p
C21_Witness ==
    \E p, q \in Procs :
        /\ p # q /\ Delivered = 0
        /\ pc[p] = "bad_append"
        /\ p \in DOMAIN files /\ ~ReadsActive(p) /\ ~ReadsBad(p)
        /\ p \in opened[q]
        /\ target_host[p] \notin Range(active_hosts[q])
        /\ target_host[p] \notin Range(bad_hosts[q])
        /\ Selected(q) /\ target_host[q] = target_host[p]

====
